---------------------------- MODULE Spec2Model ----------------------------
(***************************************************************************)
(* Model of elk.BulkUdp (src/elk/__init__.py): the field generator         *)
(* _generate_fields and the packet builder emit.                            *)
(*                                                                         *)
(* Text is modelled character by character: a Python str is a sequence of  *)
(* one-character strings, so that len(), "%s" formatting, json.dumps and   *)
(* str.encode() are computed the way the code computes them.  One          *)
(* character outside ASCII, NonAscii (U+00E9), stands for all of them.     *)
(***************************************************************************)
EXTENDS Integers, Sequences, FiniteSets, TLC

(***************************************************************************)
(* Bounds of the model.                                                    *)
(***************************************************************************)
\* max_packet_size ranges over 0..MaxBudget and the constructor's default.
MaxBudget == 180
\* Number of emit calls that run concurrently on one handler in SpecConc.
NumCalls == 2

(***************************************************************************)
(* Program constants.                                                      *)
(***************************************************************************)
\* emit, line 77: the overhead characters charged to every field.
Overhead == 5
\* emit, line 83: below this many bytes left a field that does not fit
\* ends the loop.
CriticalBytesLeft == 16
\* __init__, line 45: max_packet_size=64*1024.
DefaultMaxPacketSize == 65536

(***************************************************************************)
(* Characters and bytes.                                                   *)
(***************************************************************************)
NonAscii == "U+00E9"

\* str.encode(): UTF-8; an ASCII character is one byte, U+00E9 is two.
EncodeChar(ch) == IF ch = NonAscii THEN <<"0xC3", "0xA9">> ELSE <<ch>>

\* The bytes of s, character by character (halving s keeps the evaluation
\* shallow for a long packet).
RECURSIVE Encode(_)
Encode(s) ==
    IF s = <<>> THEN <<>>
    ELSE IF Len(s) = 1 THEN EncodeChar(s[1])
    ELSE LET half == Len(s) \div 2
         IN Encode(SubSeq(s, 1, half)) \o Encode(SubSeq(s, half + 1, Len(s)))

(***************************************************************************)
(* Python values: str, int, None, dict (a sequence of key/value items,     *)
(* insertion ordered) and an object json cannot encode natively.           *)
(***************************************************************************)
StrVal(s) == [t |-> "str", s |-> s]
IntVal(n) == [t |-> "int", n |-> n]
NoneVal == [t |-> "none"]
Obj(repr) == [t |-> "obj", repr |-> repr]
Dict(items) == [t |-> "dict", items |-> items]
TupleKey == [t |-> "tuple"]
KV(k, v) == [k |-> k, v |-> v]

\* Python truthiness, as used by "elif self.localname:".
Truthy(v) == CASE v.t = "str" -> v.s # <<>>
               [] v.t = "int" -> v.n # 0
               [] v.t = "dict" -> v.items # <<>>
               [] v.t = "none" -> FALSE
               [] OTHER -> TRUE

DigitChar == <<"0", "1", "2", "3", "4", "5", "6", "7", "8", "9">>

\* str(int) for a natural number.
RECURSIVE Digits(_)
Digits(n) == IF n < 10 THEN <<DigitChar[n + 1]>>
             ELSE Digits(n \div 10) \o <<DigitChar[(n % 10) + 1]>>

\* "%0<w>d" % n.
RECURSIVE ZeroPad(_, _)
ZeroPad(n, w) == IF Len(Digits(n)) >= w THEN Digits(n)
                 ELSE <<"0">> \o ZeroPad(n, w - 1)

\* json's encode_basestring_ascii (ensure_ascii=True): the escapes of one character.
EscapeChar(ch) == CASE ch = "\"" -> <<"\\", "\"">>
                    [] ch = "\\" -> <<"\\", "\\">>
                    [] ch = "\n" -> <<"\\", "n">>
                    [] ch = NonAscii -> <<"\\", "u", "0", "0", "e", "9">>
                    [] OTHER -> <<ch>>

RECURSIVE Escape(_)
Escape(s) == IF s = <<>> THEN <<>> ELSE EscapeChar(Head(s)) \o Escape(Tail(s))

JsonString(s) == <<"\"">> \o Escape(s) \o <<"\"">>

DumpsOk(text) == [ok |-> TRUE, text |-> text]
DumpsRaise == [ok |-> FALSE, text |-> <<>>]

\* json.dumps(value, default=str), line 73.  The result is the JSON text, or
\* the TypeError json raises for a dict key that is no str/number (default=
\* is not applied to keys).  Items are joined with ", " and ": ", the
\* default separators.
RECURSIVE Dumps(_)
RECURSIVE DumpsItems(_)
DumpsItems(items) ==
    IF items = <<>> THEN DumpsOk(<<>>)
    ELSE LET it == Head(items)
             v == Dumps(it.v)
             rest == DumpsItems(Tail(items))
         IN IF it.k.t # "str" \/ ~v.ok \/ ~rest.ok THEN DumpsRaise
            ELSE DumpsOk(JsonString(it.k.s) \o <<":", " ">> \o v.text
                         \o (IF Tail(items) = <<>> THEN <<>> ELSE <<",", " ">> \o rest.text))

Dumps(v) ==
    CASE v.t = "str" -> DumpsOk(JsonString(v.s))
      [] v.t = "int" -> DumpsOk(Digits(v.n))
      [] v.t = "none" -> DumpsOk(<<"n", "u", "l", "l">>)
      [] v.t = "obj" -> DumpsOk(JsonString(v.repr))
      [] v.t = "dict" -> LET inner == DumpsItems(v.items)
                         IN IF inner.ok THEN DumpsOk(<<"{">> \o inner.text \o <<"}">>)
                            ELSE DumpsRaise

\* dict.get(key, default).
RECURSIVE DictGet(_, _, _)
DictGet(items, key, default) ==
    IF items = <<>> THEN default
    ELSE IF Head(items).k = key THEN Head(items).v
    ELSE DictGet(Tail(items), key, default)

\* datetime.utcfromtimestamp(created).isoformat(), lines 115-116, for an
\* instant of 1970-01-01: created is [sec, usec] with sec < 86400.
IsoFormat(created) ==
    <<"1", "9", "7", "0", "-", "0", "1", "-", "0", "1", "T">> \o ZeroPad(created.sec \div 3600, 2) \o <<":">>
        \o ZeroPad((created.sec \div 60) % 60, 2) \o <<":">>
        \o ZeroPad(created.sec % 60, 2)
        \o (IF created.usec = 0 THEN <<>> ELSE <<".">> \o ZeroPad(created.usec, 6))

(***************************************************************************)
(* The environment: socket.getfqdn() and socket.gethostname().             *)
(***************************************************************************)
GetFqdn == <<"h", ".", "l", "a", "n">>
GetHostname == <<"h">>

(***************************************************************************)
(* Log records.  A record carries the attributes _generate_fields reads    *)
(* and, in extra, the caller-supplied attributes (logging's extra=), in    *)
(* insertion order.  getMessage is the outcome of record.getMessage():     *)
(* the rendered text, or the TypeError of a msg % args mismatch.           *)
(***************************************************************************)
Rendered(text) == [ok |-> TRUE, text |-> text]
RenderFails == [ok |-> FALSE, text |-> <<>>]

SKIP_EXTRA_FIELDS ==
    { <<"a", "r", "g", "s">>, <<"a", "s", "c", "t", "i", "m", "e">>, <<"c", "r", "e", "a", "t", "e", "d">>, <<"e", "x", "c", "_", "i", "n", "f", "o">>, <<"e", "x", "c", "_", "t", "e", "x", "t">>, <<"f", "i", "l", "e", "n", "a", "m", "e">>,
      <<"f", "u", "n", "c", "N", "a", "m", "e">>, <<"i", "d">>, <<"l", "e", "v", "e", "l", "n", "a", "m", "e">>, <<"l", "e", "v", "e", "l", "n", "o">>, <<"l", "i", "n", "e", "n", "o">>, <<"m", "o", "d", "u", "l", "e">>, <<"m", "s", "e", "c", "s">>,
      <<"m", "e", "s", "s", "a", "g", "e">>, <<"m", "s", "g">>, <<"n", "a", "m", "e">>, <<"p", "a", "t", "h", "n", "a", "m", "e">>, <<"p", "r", "o", "c", "e", "s", "s">>, <<"p", "r", "o", "c", "e", "s", "s", "N", "a", "m", "e">>,
      <<"r", "e", "l", "a", "t", "i", "v", "e", "C", "r", "e", "a", "t", "e", "d">>, <<"t", "h", "r", "e", "a", "d">>, <<"t", "h", "r", "e", "a", "d", "N", "a", "m", "e">> }

\* record.__dict__.items(), line 133: the attributes LogRecord.__init__ sets
\* (Python 3, where stack_info is one of them), then the caller's extra
\* attributes.
RecordDict(r) ==
    << KV(<<"n", "a", "m", "e">>, StrVal(r.name)), KV(<<"m", "s", "g">>, r.msg), KV(<<"a", "r", "g", "s">>, NoneVal),
       KV(<<"l", "e", "v", "e", "l", "n", "a", "m", "e">>, StrVal(r.levelname)), KV(<<"l", "e", "v", "e", "l", "n", "o">>, IntVal(r.levelno)),
       KV(<<"p", "a", "t", "h", "n", "a", "m", "e">>, StrVal(r.pathname)), KV(<<"f", "i", "l", "e", "n", "a", "m", "e">>, StrVal(r.pathname)),
       KV(<<"m", "o", "d", "u", "l", "e">>, StrVal(r.pathname)), KV(<<"e", "x", "c", "_", "i", "n", "f", "o">>, NoneVal),
       KV(<<"e", "x", "c", "_", "t", "e", "x", "t">>, NoneVal), KV(<<"s", "t", "a", "c", "k", "_", "i", "n", "f", "o">>, NoneVal),
       KV(<<"l", "i", "n", "e", "n", "o">>, IntVal(r.lineno)),
       KV(<<"f", "u", "n", "c", "N", "a", "m", "e">>, StrVal(r.funcName)), KV(<<"c", "r", "e", "a", "t", "e", "d">>, IntVal(r.created.sec)),
       KV(<<"m", "s", "e", "c", "s">>, IntVal(r.created.usec \div 1000)), KV(<<"r", "e", "l", "a", "t", "i", "v", "e", "C", "r", "e", "a", "t", "e", "d">>, IntVal(0)),
       KV(<<"t", "h", "r", "e", "a", "d">>, IntVal(1)), KV(<<"t", "h", "r", "e", "a", "d", "N", "a", "m", "e">>, StrVal(r.threadName)),
       KV(<<"p", "r", "o", "c", "e", "s", "s", "N", "a", "m", "e">>, r.processName), KV(<<"p", "r", "o", "c", "e", "s", "s">>, IntVal(r.process)) >>
    \o r.extra

\* key.startswith('_')
StartsWithUnderscore(key) == key # <<>> /\ key[1] = "_"

\* Line 134 without its test for a leading underscore.
IsExtraFieldPrivateToo(key) == key \notin SKIP_EXTRA_FIELDS

\* Line 134: the attributes sent as extra fields.
IsExtraField(key) == key \notin SKIP_EXTRA_FIELDS /\ ~StartsWithUnderscore(key)

\* Line 135: '_%s' % key
ExtraKey(key) == <<"_">> \o key

(***************************************************************************)
(* _generate_fields (lines 93-135): the items the generator produces, in   *)
(* order.  An item is a yielded (key, value) pair or the exception the     *)
(* generator raises at that point; nothing follows a raise.                *)
(***************************************************************************)
Yield(key, value) == [kind |-> "yield", key |-> key, value |-> value]
RaiseItem(exc) == [kind |-> "raise", exc |-> exc]

RECURSIVE UntilRaise(_)
UntilRaise(items) ==
    IF items = <<>> THEN <<>>
    ELSE IF Head(items).kind = "raise" THEN <<Head(items)>>
    ELSE <<Head(items)>> \o UntilRaise(Tail(items))

\* Lines 96-104.  record.getMessage() is evaluated in both branches, before
\* "@fields" is yielded.
MessageFields(r) ==
    IF ~r.getMessage.ok THEN <<RaiseItem("TypeError")>>
    ELSE LET rendered == StrVal(r.getMessage.text)
             fields == IF r.msg.t = "dict" THEN r.msg ELSE Dict(<<>>)
             message == IF r.msg.t = "dict"
                        THEN DictGet(r.msg.items, StrVal(<<"m", "e", "s", "s", "a", "g", "e">>), rendered)
                        ELSE rendered
         IN <<Yield(<<"@", "f", "i", "e", "l", "d", "s">>, fields), Yield(<<"m", "e", "s", "s", "a", "g", "e">>, message)>>

\* Lines 106-111.  The module socket has no attribute localname: line 109
\* raises AttributeError.
LogsourceField(h) ==
    IF h.fqdn THEN Yield(<<"l", "o", "g", "s", "o", "u", "r", "c", "e">>, StrVal(GetFqdn))
    ELSE IF Truthy(h.localname) THEN RaiseItem("AttributeError")
    ELSE Yield(<<"l", "o", "g", "s", "o", "u", "r", "c", "e">>, StrVal(GetHostname))

\* Lines 113-119 with "level" yielded before "@timestamp".
RecordFieldsLevelFirst(h, r) ==
    << Yield(<<"s", "e", "v", "e", "r", "i", "t", "y">>, IntVal(r.levelno)),
       Yield(<<"l", "e", "v", "e", "l">>, StrVal(r.levelname)),
       Yield(<<"@", "t", "i", "m", "e", "s", "t", "a", "m", "p">>, StrVal(IsoFormat(r.created) \o <<"Z">>)),
       Yield(<<"n", "a", "m", "e">>, StrVal(r.name)),
       Yield(<<"s", "e", "r", "v", "i", "c", "e">>, StrVal(h.service)) >>

\* Lines 113-119.
RecordFields(h, r) ==
    << Yield(<<"s", "e", "v", "e", "r", "i", "t", "y">>, IntVal(r.levelno)),
       Yield(<<"@", "t", "i", "m", "e", "s", "t", "a", "m", "p">>, StrVal(IsoFormat(r.created) \o <<"Z">>)),
       Yield(<<"l", "e", "v", "e", "l">>, StrVal(r.levelname)),
       Yield(<<"n", "a", "m", "e">>, StrVal(r.name)),
       Yield(<<"s", "e", "r", "v", "i", "c", "e">>, StrVal(h.service)) >>

\* Lines 121-130.
DebuggingFields(h, r) ==
    IF h.debugging_fields
    THEN << Yield(<<"f", "i", "l", "e">>, StrVal(r.pathname)),
            Yield(<<"l", "i", "n", "e">>, IntVal(r.lineno)),
            Yield(<<"_", "f", "u", "n", "c", "t", "i", "o", "n">>, StrVal(r.funcName)),
            Yield(<<"_", "p", "i", "d">>, IntVal(r.process)),
            Yield(<<"_", "t", "h", "r", "e", "a", "d", "_", "n", "a", "m", "e">>, StrVal(r.threadName)) >>
         \o (IF r.processName # NoneVal
             THEN <<Yield(<<"_", "p", "r", "o", "c", "e", "s", "s", "_", "n", "a", "m", "e">>, r.processName)>> ELSE <<>>)
    ELSE <<>>

RECURSIVE ExtraItems(_)
ExtraItems(attrs) ==
    IF attrs = <<>> THEN <<>>
    ELSE (IF IsExtraField(Head(attrs).k)
          THEN <<Yield(ExtraKey(Head(attrs).k), Head(attrs).v)>> ELSE <<>>)
         \o ExtraItems(Tail(attrs))

\* Lines 132-135.
ExtraFields(h, r) == IF h.extra_fields THEN ExtraItems(RecordDict(r)) ELSE <<>>

GenerateFields(h, r) ==
    UntilRaise(<<Yield(<<"@", "v", "e", "r", "s", "i", "o", "n">>, StrVal(<<"1">>))>> \o MessageFields(r)
               \o <<LogsourceField(h)>> \o RecordFields(h, r)
               \o DebuggingFields(h, r) \o ExtraFields(h, r))

(***************************************************************************)
(* Inputs: the handler's configuration and the records logged.             *)
(***************************************************************************)
Budgets == (0 .. MaxBudget) \cup {DefaultMaxPacketSize}

Localnames == {NoneVal, StrVal(<<"l", "h">>)}

Handlers ==
    [max_packet_size : Budgets, debugging_fields : BOOLEAN,
     extra_fields : BOOLEAN, fqdn : BOOLEAN, localname : Localnames,
     service : {<<"s">>}]

BaseRecord ==
    [msg |-> StrVal(<<"h", "i">>), getMessage |-> Rendered(<<"h", "i">>), levelno |-> 20,
     levelname |-> <<"I", "N", "F", "O">>, name |-> <<"n">>, created |-> [sec |-> 0, usec |-> 0],
     pathname |-> <<"f">>, lineno |-> 7, funcName |-> <<"g">>, process |-> 1,
     threadName |-> <<"T">>, processName |-> StrVal(<<"P">>), extra |-> <<>>]

\* A message too long for a small budget, and the spec's user_id example.
LongRecord ==
    [BaseRecord EXCEPT !.msg = StrVal(<<"a", " ", "l", "o", "n", "g", " ", "m", "e", "s", "s", "a", "g", "e", " ", "\"", NonAscii, "\"", " ", "o", "f", " ", "3", "0", " ", "c", "h", "a", "r", "s">>),
                       !.getMessage = Rendered(<<"a", " ", "l", "o", "n", "g", " ", "m", "e", "s", "s", "a", "g", "e", " ", "\"", NonAscii, "\"", " ", "o", "f", " ", "3", "0", " ", "c", "h", "a", "r", "s">>),
                       !.created = [sec |-> 3661, usec |-> 500000],
                       !.extra = <<KV(<<"u", "s", "e", "r", "_", "i", "d">>, IntVal(42))>>]

\* A dict message with its own "message" entry; attributes that are private,
\* that bear a standard field's name, and that json cannot encode natively.
DictRecord ==
    [BaseRecord EXCEPT !.msg = Dict(<<KV(StrVal(<<"m", "e", "s", "s", "a", "g", "e">>), StrVal(<<"m">>)),
                                      KV(StrVal(<<"c", "o", "d", "e">>), IntVal(7))>>),
                       !.getMessage = Rendered(<<"{", "'", "m", "e", "s", "s", "a", "g", "e", "'", ":", " ", "'", "m", "'", ",", " ", "'", "c", "o", "d", "e", "'", ":", " ", "7", "}">>),
                       !.processName = NoneVal,
                       !.extra = <<KV(<<"_", "p", "r", "i", "v", "a", "t", "e">>, IntVal(1)),
                                   KV(<<"s", "e", "r", "v", "i", "c", "e">>, StrVal(<<"x">>)),
                                   KV(<<"o">>, Obj(<<"<", "o", ">">>))>>]

\* A dict message json.dumps refuses: a key that is a tuple.
BadKeyRecord ==
    [BaseRecord EXCEPT !.msg = Dict(<<KV(TupleKey, IntVal(1))>>),
                       !.getMessage = Rendered(<<"{", "(", "1", ",", " ", "2", ")", ":", " ", "1", "}">>)]

\* logger.info("%d", "x"): getMessage() raises.
BadArgsRecord ==
    [BaseRecord EXCEPT !.msg = StrVal(<<"%", "d">>), !.getMessage = RenderFails]

\* extra={'function': 'f2'}
FunctionRecord == [BaseRecord EXCEPT !.extra = <<KV(<<"f", "u", "n", "c", "t", "i", "o", "n">>, StrVal(<<"f", "2">>))>>]

\* extra={'a"b': 1}
QuoteKeyRecord == [BaseRecord EXCEPT !.extra = <<KV(<<"a", "\"", "b">>, IntVal(1))>>]

\* extra={u'\u00e9': 1}
NonAsciiKeyRecord == [BaseRecord EXCEPT !.extra = <<KV(<<NonAscii>>, IntVal(1))>>]

Records ==
    { BaseRecord, LongRecord, DictRecord, BadKeyRecord, BadArgsRecord,
      FunctionRecord, QuoteKeyRecord, NonAsciiKeyRecord }

\* The inputs of the concurrent specification.
\* max_packet_size of the concurrent specification besides the default.
ConcBudget == 60

ConcHandlers ==
    [max_packet_size : {ConcBudget, DefaultMaxPacketSize},
     debugging_fields : {FALSE}, extra_fields : {TRUE}, fqdn : {FALSE},
     localname : Localnames, service : {<<"s">>}]

ConcRecords == { BaseRecord, LongRecord, BadKeyRecord }

(***************************************************************************)
(* State.                                                                  *)
(***************************************************************************)
VARIABLES
    handler,      \* the BulkUdp instance: its constructor arguments
    record,       \* record[c]: the argument of emit call c
    pc,           \* pc[c]: where call c is: call, loop, close, send,
                  \* returned (emit returned), raised (an exception left emit)
    gen,          \* gen[c]: call c's generator (line 71): the items it
                  \* produces, fixed when it is created
    idx,          \* idx[c]: the next item of call c's generator
    packet,       \* emit's local packet, per frame
    first_field,  \* emit's local first_field, per frame
    committed,    \* committed[c]: the generator items appended to the packet
    sendcalls,    \* sendcalls[c]: the byte strings call c handed to self.send
    handled,      \* handled[c]: how often call c called self.handleError
    error         \* error[c]: the exception raised in call c, or "none"

vars == <<handler, record, pc, gen, idx, packet, first_field, committed,
          sendcalls, handled, error>>

Calls == DOMAIN pc

\* packet and first_field kept on the handler: one frame for all calls.
FrameShared(c) == 1

\* packet and first_field are locals (lines 68-69): every call has its own.
Frame(c) == c

Item(c) == gen[c][idx[c]]

\* Line 72.
BytesLeft(c) == handler.max_packet_size - Len(packet[Frame(c)])

\* Line 77 with <= for <.
FitsOrEqual(key, value_json, bytes_left) ==
    Len(value_json) + Len(key) + Overhead <= bytes_left

\* Line 77 with the value counted twice.
FitsValueTwice(key, value_json, bytes_left) ==
    Len(value_json) + Len(value_json) + Len(key) + Overhead < bytes_left

\* Line 77.
Fits(key, value_json, bytes_left) ==
    Len(value_json) + Len(key) + Overhead < bytes_left

\* Lines 78-81: the text appended for a committed field.
Member(first, key, value_json) ==
    IF ~first THEN <<",", "\"">> \o key \o <<"\"", ":">> \o value_json
    ELSE <<"\"">> \o key \o <<"\"", ":">> \o value_json

\* Lines 88-91 with a handler for socket errors only.
CatchesSocketErrorOnly(exc) == exc = "OSError"

\* Lines 88-91: KeyboardInterrupt and SystemExit are re-raised, every other
\* exception goes to handleError.
Catches(exc) == exc \notin {"KeyboardInterrupt", "SystemExit"}

\* The frame of a finished call is gone.
Unwind(c) ==
    /\ gen' = [gen EXCEPT ![c] = <<>>]
    /\ idx' = [idx EXCEPT ![c] = 0]
    /\ packet' = [packet EXCEPT ![Frame(c)] = <<>>]
    /\ first_field' = [first_field EXCEPT ![Frame(c)] = TRUE]
    /\ committed' = [committed EXCEPT ![c] = <<>>]

\* An exception raised inside the try block of call c (lines 88-91).
Raise(c, exc) ==
    /\ error' = [error EXCEPT ![c] = exc]
    /\ IF Catches(exc)
       THEN /\ handled' = [handled EXCEPT ![c] = @ + 1]
            /\ pc' = [pc EXCEPT ![c] = "returned"]
       ELSE /\ handled' = handled
            /\ pc' = [pc EXCEPT ![c] = "raised"]
    /\ Unwind(c)

(***************************************************************************)
(* emit (lines 57-91), one action per step.                                *)
(***************************************************************************)
\* Lines 68-69.
Begin(c) ==
    /\ pc[c] = "call"
    /\ packet' = [packet EXCEPT ![Frame(c)] = <<"{">>]
    /\ first_field' = [first_field EXCEPT ![Frame(c)] = TRUE]
    /\ gen' = [gen EXCEPT ![c] = GenerateFields(handler, record[c])]
    /\ idx' = [idx EXCEPT ![c] = 1]
    /\ pc' = [pc EXCEPT ![c] = "loop"]
    /\ UNCHANGED <<handler, record, committed, sendcalls, handled, error>>

\* Line 71: the generator raises.
GeneratorRaises(c) ==
    /\ pc[c] = "loop" /\ idx[c] <= Len(gen[c])
    /\ Item(c).kind = "raise"
    /\ Raise(c, Item(c).exc)
    /\ UNCHANGED <<handler, record, sendcalls>>

\* Line 73: json.dumps raises.
DumpsRaises(c) ==
    /\ pc[c] = "loop" /\ idx[c] <= Len(gen[c])
    /\ Item(c).kind = "yield"
    /\ ~Dumps(Item(c).value).ok
    /\ Raise(c, "TypeError")
    /\ UNCHANGED <<handler, record, sendcalls>>

\* Lines 77-82: the field fits and is appended.
Commit(c) ==
    /\ pc[c] = "loop" /\ idx[c] <= Len(gen[c])
    /\ Item(c).kind = "yield"
    /\ LET value_json == Dumps(Item(c).value)
       IN /\ value_json.ok
          /\ Fits(Item(c).key, value_json.text, BytesLeft(c))
          /\ packet' = [packet EXCEPT ![Frame(c)] =
                 @ \o Member(first_field[Frame(c)], Item(c).key, value_json.text)]
    /\ first_field' = [first_field EXCEPT ![Frame(c)] = FALSE]
    /\ committed' = [committed EXCEPT ![c] = Append(@, idx[c])]
    /\ idx' = [idx EXCEPT ![c] = @ + 1]
    /\ UNCHANGED <<handler, record, pc, gen, sendcalls, handled, error>>

\* Lines 77, 83: the field does not fit, bytes_left >= 16: next field.
Skip(c) ==
    /\ pc[c] = "loop" /\ idx[c] <= Len(gen[c])
    /\ Item(c).kind = "yield"
    /\ LET value_json == Dumps(Item(c).value)
       IN /\ value_json.ok
          /\ ~Fits(Item(c).key, value_json.text, BytesLeft(c))
    /\ ~(BytesLeft(c) < CriticalBytesLeft)
    /\ idx' = [idx EXCEPT ![c] = @ + 1]
    /\ UNCHANGED <<handler, record, pc, gen, packet, first_field, committed,
                   sendcalls, handled, error>>

\* Lines 83-84: the field does not fit, bytes_left < 16: break.
Break(c) ==
    /\ pc[c] = "loop" /\ idx[c] <= Len(gen[c])
    /\ Item(c).kind = "yield"
    /\ LET value_json == Dumps(Item(c).value)
       IN /\ value_json.ok
          /\ ~Fits(Item(c).key, value_json.text, BytesLeft(c))
    /\ BytesLeft(c) < CriticalBytesLeft
    /\ pc' = [pc EXCEPT ![c] = "close"]
    /\ UNCHANGED <<handler, record, gen, idx, packet, first_field, committed,
                   sendcalls, handled, error>>

\* Line 71: the generator is exhausted.
Exhausted(c) ==
    /\ pc[c] = "loop" /\ idx[c] > Len(gen[c])
    /\ pc' = [pc EXCEPT ![c] = "close"]
    /\ UNCHANGED <<handler, record, gen, idx, packet, first_field, committed,
                   sendcalls, handled, error>>

\* Line 86.
Close(c) ==
    /\ pc[c] = "close"
    /\ packet' = [packet EXCEPT ![Frame(c)] = @ \o <<"}", "\n">>]
    /\ pc' = [pc EXCEPT ![c] = "send"]
    /\ UNCHANGED <<handler, record, gen, idx, first_field, committed, sendcalls,
                   handled, error>>

\* Line 87: self.send(packet.encode()) returns.
Send(c) ==
    /\ pc[c] = "send"
    /\ sendcalls' = [sendcalls EXCEPT ![c] = Append(@, Encode(packet[Frame(c)]))]
    /\ pc' = [pc EXCEPT ![c] = "returned"]
    /\ Unwind(c)
    /\ UNCHANGED <<handler, record, handled, error>>

\* Line 87: self.send(packet.encode()) raises (a socket error).
SendFails(c) ==
    /\ pc[c] = "send"
    /\ sendcalls' = [sendcalls EXCEPT ![c] = Append(@, Encode(packet[Frame(c)]))]
    /\ Raise(c, "OSError")
    /\ UNCHANGED <<handler, record>>

\* A KeyboardInterrupt or SystemExit raised while the try block runs.
Interrupt(c) ==
    /\ pc[c] \in {"loop", "close", "send"}
    /\ \E exc \in {"KeyboardInterrupt", "SystemExit"} : Raise(c, exc)
    /\ UNCHANGED <<handler, record, sendcalls>>

Next ==
    \/ \E c \in Calls : Begin(c)
    \/ \E c \in Calls : GeneratorRaises(c)
    \/ \E c \in Calls : DumpsRaises(c)
    \/ \E c \in Calls : Commit(c)
    \/ \E c \in Calls : Skip(c)
    \/ \E c \in Calls : Break(c)
    \/ \E c \in Calls : Exhausted(c)
    \/ \E c \in Calls : Close(c)
    \/ \E c \in Calls : Send(c)
    \/ \E c \in Calls : SendFails(c)
    \/ \E c \in Calls : Interrupt(c)

InitCalls(calls) ==
    /\ pc = [c \in calls |-> "call"]
    /\ gen = [c \in calls |-> <<>>]
    /\ idx = [c \in calls |-> 0]
    /\ packet = [c \in calls |-> <<>>]
    /\ first_field = [c \in calls |-> TRUE]
    /\ committed = [c \in calls |-> <<>>]
    /\ sendcalls = [c \in calls |-> <<>>]
    /\ handled = [c \in calls |-> 0]
    /\ error = [c \in calls |-> "none"]

\* One emit call, every configuration and record.
Init ==
    /\ handler \in Handlers
    /\ record \in [{1} -> Records]
    /\ InitCalls({1})

Spec == Init /\ [][Next]_vars

\* NumCalls emit calls interleaved on one handler.
InitConc ==
    /\ handler \in ConcHandlers
    /\ record \in [1 .. NumCalls -> ConcRecords]
    /\ InitCalls(1 .. NumCalls)

SpecConc == InitConc /\ [][Next]_vars

(***************************************************************************)
(* Vocabulary of the properties.                                           *)
(***************************************************************************)
\* A call whose frame is alive: packet, first_field and the generator exist.
InEmit(c) == pc[c] \in {"loop", "close", "send"}

\* The keys of the fields call c has committed, in packet order.
Keys(c) == [p \in 1 .. Len(committed[c]) |-> gen[c][committed[c][p]].key]

\* The JSON text of generator item i of call c.
ValueText(c, i) == Dumps(gen[c][i].value).text

MandatoryOrder ==
    << <<"@", "v", "e", "r", "s", "i", "o", "n">>, <<"@", "f", "i", "e", "l", "d", "s">>, <<"m", "e", "s", "s", "a", "g", "e">>, <<"l", "o", "g", "s", "o", "u", "r", "c", "e">>, <<"s", "e", "v", "e", "r", "i", "t", "y">>,
       <<"@", "t", "i", "m", "e", "s", "t", "a", "m", "p">>, <<"l", "e", "v", "e", "l">>, <<"n", "a", "m", "e">>, <<"s", "e", "r", "v", "i", "c", "e">> >>

DebuggingKeys ==
    { <<"f", "i", "l", "e">>, <<"l", "i", "n", "e">>, <<"_", "f", "u", "n", "c", "t", "i", "o", "n">>, <<"_", "p", "i", "d">>, <<"_", "t", "h", "r", "e", "a", "d", "_", "n", "a", "m", "e">>, <<"_", "p", "r", "o", "c", "e", "s", "s", "_", "n", "a", "m", "e">> }

Range(seq) == {seq[i] : i \in 1 .. Len(seq)}

StandardKeys == Range(MandatoryOrder) \cup DebuggingKeys

PositionIn(seq, x) == CHOOSE i \in 1 .. Len(seq) : seq[i] = x

\* pat occurs in s.
IsInfix(pat, s) ==
    \E i \in 0 .. (Len(s) - Len(pat)) :
        \A j \in 1 .. Len(pat) : s[i + j] = pat[j]

(***************************************************************************)
(* A recogniser of JSON text (RFC 8259) for the values json.dumps writes:  *)
(* objects, strings, integers and null.  A parse returns the position      *)
(* after the element, or 0 when the text is no such element.               *)
(***************************************************************************)
CharAt(doc, i) == IF i >= 1 /\ i <= Len(doc) THEN doc[i] ELSE "EOF"

HexDigits == Range(DigitChar) \cup {"a", "b", "c", "d", "e", "f", "A", "B", "C", "D", "E", "F"}

RECURSIVE SkipSpace(_, _)
SkipSpace(doc, i) == IF CharAt(doc, i) = " " THEN SkipSpace(doc, i + 1) ELSE i

RECURSIVE ParseStringBody(_, _)
ParseStringBody(doc, i) ==
    LET ch == CharAt(doc, i)
    IN CASE ch = "EOF" -> 0
         [] ch = "\n" -> 0
         [] ch = "\"" -> i + 1
         [] ch = "\\" ->
              IF CharAt(doc, i + 1) \in {"\"", "\\", "/", "b", "f", "n", "r", "t"}
              THEN ParseStringBody(doc, i + 2)
              ELSE IF /\ CharAt(doc, i + 1) = "u"
                      /\ \A k \in 2 .. 5 : CharAt(doc, i + k) \in HexDigits
              THEN ParseStringBody(doc, i + 6)
              ELSE 0
         [] OTHER -> ParseStringBody(doc, i + 1)

ParseString(doc, i) ==
    IF CharAt(doc, i) = "\"" THEN ParseStringBody(doc, i + 1) ELSE 0

RECURSIVE ParseDigits(_, _)
ParseDigits(doc, i) ==
    IF CharAt(doc, i) \in Range(DigitChar) THEN ParseDigits(doc, i + 1) ELSE i

ParseNumber(doc, i) ==
    IF CharAt(doc, i) \notin Range(DigitChar) THEN 0
    ELSE IF CharAt(doc, i) = "0" THEN i + 1
    ELSE ParseDigits(doc, i)

ParseNull(doc, i) ==
    IF \A k \in 1 .. 4 : CharAt(doc, i + k - 1) = <<"n", "u", "l", "l">>[k] THEN i + 4 ELSE 0

RECURSIVE ParseValue(_, _)
RECURSIVE ParseMembers(_, _)
ParseObject(doc, i) ==
    IF CharAt(doc, i) # "{" THEN 0
    ELSE LET j == SkipSpace(doc, i + 1)
         IN IF CharAt(doc, j) = "}" THEN j + 1 ELSE ParseMembers(doc, j)

ParseMembers(doc, i) ==
    LET k == ParseString(doc, i)
        colon == SkipSpace(doc, k)
        v == IF k # 0 /\ CharAt(doc, colon) = ":"
             THEN ParseValue(doc, SkipSpace(doc, colon + 1)) ELSE 0
        e == SkipSpace(doc, v)
    IN IF v = 0 THEN 0
       ELSE IF CharAt(doc, e) = "," THEN ParseMembers(doc, SkipSpace(doc, e + 1))
       ELSE IF CharAt(doc, e) = "}" THEN e + 1
       ELSE 0

ParseValue(doc, i) ==
    LET ch == CharAt(doc, i)
    IN CASE ch = "{" -> ParseObject(doc, i)
         [] ch = "\"" -> ParseString(doc, i)
         [] ch = "n" -> ParseNull(doc, i)
         [] OTHER -> ParseNumber(doc, i)

\* doc is one JSON object followed by a newline and nothing else.
IsJsonObjectLine(doc) ==
    /\ Len(doc) >= 3
    /\ doc[Len(doc)] = "\n"
    /\ ParseObject(doc, 1) = Len(doc)

(***************************************************************************)
(* C1.  The byte length of the packet never exceeds max_packet_size: in    *)
(* every state of an emit call, from the initial "{" through each          *)
(* committed field, and for the encoded bytes handed to send.              *)
(* The code violates it: "{" and "{}\n" are longer than a max_packet_size  *)
(* below 3, and len(packet) counts characters where the budget is bytes.   *)
(***************************************************************************)
C1_PacketWithinBudget ==
    \A c \in Calls :
        /\ InEmit(c) =>
               Len(Encode(packet[Frame(c)])) <= handler.max_packet_size
        /\ \A i \in 1 .. Len(sendcalls[c]) :
               Len(sendcalls[c][i]) <= handler.max_packet_size

(***************************************************************************)
(* C2.  Every document handed to send is a well-formed JSON object         *)
(* followed by a newline: "{", complete "key":value members separated by   *)
(* single commas, "}\n".                                                   *)
(* The code violates it: a key is formatted with "%s", not JSON-encoded,   *)
(* so an attribute name holding a double quote ends the key early.         *)
(***************************************************************************)
C2_WellFormedJson ==
    \A c \in Calls :
        \A i \in 1 .. Len(sendcalls[c]) : IsJsonObjectLine(sendcalls[c][i])

(***************************************************************************)
(* C3 as stated.  The committed fields of a finished packet form a prefix  *)
(* of the generation order: a present field has every earlier field        *)
(* present too.                                                            *)
(***************************************************************************)
C3_CommittedPrefix ==
    \A c \in Calls :
        pc[c] = "send" =>
            \A p \in 1 .. Len(committed[c]) : committed[c][p] = p

\* The length of call c's packet when generator item i is examined: "{",
\* the fields committed before i, and the commas between them.
RECURSIVE MembersLength(_, _, _)
MembersLength(c, i, p) ==
    IF p > Len(committed[c]) \/ committed[c][p] >= i THEN 0
    ELSE Len(gen[c][committed[c][p]].key) + Len(ValueText(c, committed[c][p])) + 3
         + (IF p > 1 THEN 1 ELSE 0)
         + MembersLength(c, i, p + 1)

LengthBefore(c, i) == 1 + MembersLength(c, i, 1)

(***************************************************************************)
(* C3 as amended.  A field present in the packet has every earlier field   *)
(* of the generation order present too, except the earlier fields that     *)
(* did not fit when their turn came:                                       *)
(* len(key) + len(value_json) + 5 >= max_packet_size - len(packet).        *)
(***************************************************************************)
C3_EarlierAbsentOnlyIfTooLarge ==
    \A c \in Calls :
        InEmit(c) =>
            \A p \in 1 .. Len(committed[c]) :
                \A i \in 1 .. (committed[c][p] - 1) :
                    \/ i \in Range(committed[c])
                    \/ Len(gen[c][i].key) + Len(ValueText(c, i)) + 5
                           >= handler.max_packet_size - LengthBefore(c, i)

\* A finished packet in which an earlier field is absent and a later one is
\* present.
C3_Witness ==
    \E c \in Calls :
        /\ pc[c] = "send"
        /\ \E p \in 1 .. Len(committed[c]) : committed[c][p] > p

(***************************************************************************)
(* C4.  logsource is the fully-qualified domain name when fqdn is set,     *)
(* else the configured localname when one is set, else the short           *)
(* hostname; with fqdn false and localname set, emit sends a packet whose  *)
(* logsource is the localname.                                             *)
(* The code violates it: line 109 reads socket.localname, which raises     *)
(* AttributeError, and nothing is sent.                                    *)
(***************************************************************************)
ExpectedLogsource ==
    IF handler.fqdn THEN GetFqdn
    ELSE IF handler.localname # NoneVal THEN handler.localname.s
    ELSE GetHostname

C4_LogsourceResolution ==
    \A c \in Calls :
        /\ (InEmit(c) /\ record[c].getMessage.ok) =>
               /\ Len(gen[c]) >= 4
               /\ gen[c][4] = Yield(<<"l", "o", "g", "s", "o", "u", "r", "c", "e">>, StrVal(ExpectedLogsource))
        /\ ( /\ pc[c] = "returned"
             /\ record[c].getMessage.ok
             /\ Dumps(record[c].msg).ok
             /\ handler.max_packet_size = DefaultMaxPacketSize ) =>
               /\ Len(sendcalls[c]) = 1
               /\ IsInfix(Encode(<<"\"", "l", "o", "g", "s", "o", "u", "r", "c", "e", "\"", ":">> \o JsonString(ExpectedLogsource)),
                          sendcalls[c][1])

(***************************************************************************)
(* C5 as stated.  No exception propagates past an emit invocation.         *)
(***************************************************************************)
C5_NothingPropagates ==
    \A c \in Calls : pc[c] # "raised"

(***************************************************************************)
(* C5 as amended.  No exception other than KeyboardInterrupt and           *)
(* SystemExit propagates past an emit invocation: an error of field        *)
(* generation, of serialization or of the send is routed to handleError    *)
(* exactly once, emit returns normally, and no packet was handed to send   *)
(* unless the send itself failed; an emit without error never calls        *)
(* handleError.  KeyboardInterrupt and SystemExit are re-raised, without   *)
(* handleError.                                                            *)
(***************************************************************************)
C5_ErrorsHandledOnce ==
    \A c \in Calls :
        /\ pc[c] = "raised" =>
               /\ error[c] \in {"KeyboardInterrupt", "SystemExit"}
               /\ handled[c] = 0
        /\ (pc[c] = "returned" /\ error[c] # "none") =>
               /\ handled[c] = 1
               /\ error[c] # "OSError" => sendcalls[c] = <<>>
        /\ error[c] = "none" => handled[c] = 0
        /\ \A i \in 1 .. Len(sendcalls[c]) :
               LET doc == sendcalls[c][i]
               IN Len(doc) >= 2 /\ doc[Len(doc) - 1] = "}" /\ doc[Len(doc)] = "\n"

\* A serialization error was handled: emit returned, nothing was sent.
C5_Witness ==
    \E c \in Calls :
        /\ pc[c] = "returned"
        /\ error[c] = "TypeError"
        /\ handled[c] = 1
        /\ sendcalls[c] = <<>>
        /\ record[c].getMessage.ok

(***************************************************************************)
(* What one emit call hands to send when it runs alone and is not          *)
(* interrupted: the loop of lines 71-86 as a fold over the generator's     *)
(* items.  <<>> when an exception ends the call before the send.           *)
(***************************************************************************)
RECURSIVE BuildAlone(_, _, _, _)
BuildAlone(items, acc, first, max) ==
    IF items = <<>> THEN acc \o <<"}", "\n">>
    ELSE LET it == Head(items)
             bytes_left == max - Len(acc)
         IN IF it.kind = "raise" \/ ~Dumps(it.value).ok THEN <<>>
            ELSE IF Fits(it.key, Dumps(it.value).text, bytes_left)
            THEN BuildAlone(Tail(items),
                            acc \o Member(first, it.key, Dumps(it.value).text),
                            FALSE, max)
            ELSE IF bytes_left < CriticalBytesLeft THEN acc \o <<"}", "\n">>
            ELSE BuildAlone(Tail(items), acc, first, max)

PacketAlone(h, r) ==
    Encode(BuildAlone(GenerateFields(h, r), <<"{">>, TRUE, h.max_packet_size))

(***************************************************************************)
(* C6 as stated.  Under any interleaving of concurrent emit calls, each    *)
(* call performs exactly one send, of the complete packet of its own       *)
(* record, identical to what it would send running alone.                  *)
(***************************************************************************)
C6_ExactlyOneSend ==
    \A c \in Calls :
        pc[c] = "returned" =>
            /\ Len(sendcalls[c]) = 1
            /\ sendcalls[c][1] = PacketAlone(handler, record[c])

(***************************************************************************)
(* C6 as amended.  Under any interleaving of concurrent emit calls, each   *)
(* call performs at most one send, and exactly one when no exception is    *)
(* raised in it; what it hands to send is the complete packet of its own   *)
(* record, identical to what it would send running alone.                  *)
(***************************************************************************)
C6_AtMostOneOwnPacket ==
    \A c \in Calls :
        /\ Len(sendcalls[c]) <= 1
        /\ \A i \in 1 .. Len(sendcalls[c]) :
               sendcalls[c][i] = PacketAlone(handler, record[c])
        /\ (pc[c] = "returned" /\ error[c] = "none") => Len(sendcalls[c]) = 1

\* One call has sent its packet while another call, for a different record,
\* is in the middle of building its own.
C6_Witness ==
    \E c, d \in Calls :
        /\ c # d
        /\ record[c] # record[d]
        /\ pc[c] = "returned" /\ error[c] = "none" /\ Len(sendcalls[c]) = 1
        /\ pc[d] = "loop" /\ Len(committed[d]) >= 2

(***************************************************************************)
(* C7.  The fields of a packet appear in the generator's fixed order:      *)
(* the packet is "{" and the committed fields in generation order;         *)
(* @version, @fields, message, logsource, severity, @timestamp, level,     *)
(* name, service come in that order and before any debugging or extra      *)
(* field; when all nine are committed they are the first nine fields.      *)
(***************************************************************************)
RECURSIVE MembersText(_, _)
MembersText(c, p) ==
    IF p > Len(committed[c]) THEN <<>>
    ELSE Member(p = 1, Keys(c)[p], ValueText(c, committed[c][p]))
         \o MembersText(c, p + 1)

C7_FixedOrder ==
    \A c \in Calls :
        InEmit(c) =>
            /\ \A p, q \in 1 .. Len(committed[c]) :
                   p < q => committed[c][p] < committed[c][q]
            /\ packet[Frame(c)] =
                   <<"{">> \o MembersText(c, 1) \o (IF pc[c] = "send" THEN <<"}", "\n">> ELSE <<>>)
            /\ \A q \in 1 .. Len(committed[c]) :
                   Keys(c)[q] \in Range(MandatoryOrder) =>
                       \A p \in 1 .. (q - 1) :
                           /\ Keys(c)[p] \in Range(MandatoryOrder)
                           /\ PositionIn(MandatoryOrder, Keys(c)[p])
                                  < PositionIn(MandatoryOrder, Keys(c)[q])
            /\ Range(MandatoryOrder) \subseteq Range(Keys(c)) =>
                   SubSeq(Keys(c), 1, 9) = MandatoryOrder

\* A finished packet with the nine mandatory fields and more after them.
C7_Witness ==
    \E c \in Calls :
        /\ pc[c] = "send"
        /\ Len(committed[c]) > 9
        /\ SubSeq(Keys(c), 1, 9) = MandatoryOrder

(***************************************************************************)
(* C8.  Extra fields.  AllCommitted: the budget was large enough for every *)
(* field.                                                                  *)
(***************************************************************************)
AllCommitted(c) ==
    /\ pc[c] = "send"
    /\ Len(committed[c]) = Len(gen[c])

Eligible(key) == key \notin SKIP_EXTRA_FIELDS /\ (key = <<>> \/ key[1] # "_")

ExtraFieldsSent(c, strict) ==
    /\ (AllCommitted(c) /\ handler.extra_fields) =>
           \A a \in 1 .. Len(RecordDict(record[c])) :
               LET k == RecordDict(record[c])[a].k
                   v == RecordDict(record[c])[a].v
               IN IF Eligible(k)
                  THEN /\ \E p \in 1 .. Len(committed[c]) :
                              /\ Keys(c)[p] = <<"_">> \o k
                              /\ gen[c][committed[c][p]].value = v
                       /\ IsInfix(<<"\"", "_">> \o k \o <<"\"", ":">> \o Dumps(v).text,
                                  packet[Frame(c)])
                       /\ k \in Range(Keys(c)) => (~strict /\ k \in StandardKeys)
                  ELSE (<<"_">> \o k) \notin Range(Keys(c))
    /\ (InEmit(c) /\ ~handler.extra_fields) =>
           /\ Range(Keys(c)) \subseteq StandardKeys
           /\ Len(committed[c]) <= 9 + Cardinality(DebuggingKeys)

(***************************************************************************)
(* C8 as stated.  With extra_fields enabled and every field committed,     *)
(* the packet has a field "_<name>" with the attribute's value for every   *)
(* attribute that is neither reserved nor underscore-prefixed, no field    *)
(* for a reserved or underscore-prefixed attribute, and no field under     *)
(* the bare name; with extra_fields disabled only standard fields appear.  *)
(***************************************************************************)
C8_ExtraFieldsNoBareName ==
    \A c \in Calls : ExtraFieldsSent(c, TRUE)

(***************************************************************************)
(* C8 as amended.  As stated, except that a field under the bare name is   *)
(* present when the attribute bears the name of one of the generator's     *)
(* own mandatory or debugging fields (an attribute called service, level,  *)
(* file, ...), and only then: that field is the standard one, and the      *)
(* attribute is still sent as "_<name>".                                   *)
(***************************************************************************)
C8_ExtraFieldsPrefixed ==
    \A c \in Calls : ExtraFieldsSent(c, FALSE)

\* A complete packet for a record with an eligible, a private and a
\* standard-named attribute.
C8_Witness ==
    \E c \in Calls :
        /\ AllCommitted(c)
        /\ handler.extra_fields
        /\ record[c] = DictRecord
        /\ <<"_", "o">> \in Range(Keys(c))

(***************************************************************************)
(* C9.  A field is committed exactly when                                  *)
(* len(key) + len(value_json) + 5 < bytes_left = max_packet_size -         *)
(* len(packet).  A field that is not committed is skipped, and the loop    *)
(* goes on to the next field, when bytes_left >= 16; it ends the loop,     *)
(* with no later field committed, when bytes_left < 16.                    *)
(***************************************************************************)
C9_CommitRule ==
    [][\A c \in Calls :
        /\ ( /\ pc[c] = "loop" /\ idx[c] <= Len(gen[c])
             /\ gen[c][idx[c]].kind = "yield"
             /\ pc'[c] \in {"loop", "close"}
             /\ (idx'[c] # idx[c] \/ pc'[c] # pc[c]) ) =>
               LET key == gen[c][idx[c]].key
                   value_json == ValueText(c, idx[c])
                   bytes_left == handler.max_packet_size - Len(packet[Frame(c)])
                   cost == Len(key) + Len(value_json) + 5
               IN /\ cost < bytes_left =>
                         /\ packet'[Frame(c)] = packet[Frame(c)]
                                \o (IF committed[c] = <<>> THEN <<>> ELSE <<",">>)
                                \o <<"\"">> \o key \o <<"\"", ":">> \o value_json
                         /\ committed'[c] = Append(committed[c], idx[c])
                         /\ pc'[c] = "loop" /\ idx'[c] = idx[c] + 1
                  /\ (cost >= bytes_left /\ bytes_left >= 16) =>
                         /\ packet'[Frame(c)] = packet[Frame(c)]
                         /\ committed'[c] = committed[c]
                         /\ pc'[c] = "loop" /\ idx'[c] = idx[c] + 1
                  /\ (cost >= bytes_left /\ bytes_left < 16) =>
                         /\ packet'[Frame(c)] = packet[Frame(c)]
                         /\ committed'[c] = committed[c]
                         /\ pc'[c] = "close"
        /\ (pc[c] = "close" /\ pc'[c] = "send") =>
               /\ packet'[Frame(c)] = packet[Frame(c)] \o <<"}", "\n">>
               /\ committed'[c] = committed[c]
      ]_vars

\* The loop was left at a field that did not fit with fewer than 16 bytes
\* left, although a later field would have fit, and after an earlier field
\* had been skipped with 16 bytes or more left.
C9_Witness ==
    \E c \in Calls :
        /\ pc[c] = "close"
        /\ idx[c] <= Len(gen[c])
        /\ \E j \in (idx[c] + 1) .. Len(gen[c]) :
               /\ gen[c][j].kind = "yield"
               /\ Len(gen[c][j].key) + Len(ValueText(c, j)) + 5
                      < handler.max_packet_size - Len(packet[Frame(c)])
        /\ \E i \in 1 .. (idx[c] - 1) :
               /\ i \notin Range(committed[c])
               /\ \E p \in 1 .. Len(committed[c]) : committed[c][p] > i

(***************************************************************************)
(* C10.  No key occurs twice in a packet.                                  *)
(* The code violates it: with debugging_fields and extra_fields both       *)
(* enabled, an attribute named function, pid, thread_name or process_name  *)
(* is sent as "_function", ..., the key of a debugging field.              *)
(***************************************************************************)
C10_DistinctKeys ==
    \A c \in Calls :
        InEmit(c) =>
            \A p, q \in 1 .. Len(committed[c]) :
                p # q => Keys(c)[p] # Keys(c)[q]

=============================================================================
